---- MODULE Spec2Model ----
(***************************************************************************)
(* FPBE notification service: the Notification entity and its status       *)
(* state machine (models/notification.py), the per-user preference check   *)
(* (NotificationPreference.is_enabled_for_type) and the delivery           *)
(* orchestrator (send_notification in app.py).                             *)
(*                                                                         *)
(* Python values are modelled as follows.  None for a timestamp is NoTime, *)
(* None for a string is NoError, None for a dict argument is NoPatch and   *)
(* a dict argument d is Some(d).  A dict is a function whose DOMAIN is its *)
(* key set.  delivery_info holds                                           *)
(* values of several Python types; a string value v is Str(v) and a nested *)
(* dict d is Dict(d), so that TLC can compare any two of them.             *)
(***************************************************************************)
EXTENDS Integers, Sequences, FiniteSets, TLC

VARIABLES
    \* ---- Notification (models/notification.py:104-118)
    status, sent_at, delivered_at, read_at, error_message, delivery_info,
    \* ---- the clock read by datetime.utcnow()
    now,
    \* ---- the last call made on the notification and the fields before it
    call,
    \* ---- NotificationPreference of the user (models/notification.py:53-76)
    prefs, edits, check,
    \* ---- one send_notification request (app.py:122-191)
    pc, req_type, channels, idx, delivery_statuses, final_status,
    send_calls, raised_channels, update_calls,
    \* ---- EmailService._rate_limiters: recipient -> RateLimiter.requests
    \*      (services/email_service.py:44-64, 110), the last acquire call,
    \*      and every admitted timestamp
    rate_limiters, acq, admitted,
    \* ---- SMSService._rate_tracking (services/sms_service.py:62), the last
    \*      _check_rate_limit call, the admitted sends of each
    \*      (phone number, type) and what the last send_sms returned
    rate_tracking, sms_check, sms_admitted, sms_result,
    \* ---- EmailService (services/email_service.py:86-176): the providers
    \*      configured, and the concurrent send_email calls
    email_config, tasks,
    \* ---- NotificationTemplateManager (utils/templates.py): the template
    \*      files on disk, _template_cache, and the last render_template call
    tpl_files, template_cache, render,
    \* ---- the filter table _env.filters of the template manager and the
    \*      last register_filter call
    filters, filter_call,
    \* ---- PushNotificationService (services/push_notification.py): one
    \*      user's list device_tokens:{user_id} and the sets
    \*      blacklisted_tokens:{platform} in redis, the concurrent
    \*      register_device calls, and the send_notification call
    device_tokens, blacklisted_tokens, reg, reg_ghost, push,
    \* ---- PushNotificationService._rate_limiters: key -> asyncio.Lock
    \*      (services/push_notification.py:67-68), and the concurrent
    \*      send_notification calls that take those locks
    push_rate_limiters, senders

notifVars == <<status, sent_at, delivered_at, read_at, error_message, delivery_info>>
prefVars  == <<prefs, edits, check>>
orchVars  == <<pc, req_type, channels, idx, delivery_statuses, final_status,
               send_calls, raised_channels, update_calls>>
limVars   == <<rate_limiters, acq, admitted>>
smsVars   == <<rate_tracking, sms_check, sms_admitted, sms_result>>
emailVars == <<email_config, tasks>>
tplVars   == <<tpl_files, template_cache, render, filters, filter_call>>
\* the state of the channel senders and of the utilities they use
registryVars == <<device_tokens, blacklisted_tokens>>
regVars   == <<reg, reg_ghost>>
lockVars  == <<push_rate_limiters, senders>>
pushVars  == <<registryVars, regVars, push, lockVars>>
senderVars == <<limVars, smsVars, emailVars, tplVars, pushVars>>
vars == <<notifVars, now, call, prefVars, orchVars, senderVars>>

----------------------------------------------------------------------------
(* Bounds of the model *)

\* the clock runs from 0 to MaxClock
MaxClock == 1
\* number of changes made to a user's default preferences
MaxEdits == 2
\* the clock of a rate limiter runs from 0 to MaxTime
MaxTime == 6
\* RateLimiter.max_per_hour, scaled down (RATE_LIMIT_CONFIG gives 20)
MaxPerHour == 3
\* RateLimiter.max_burst, scaled down (RATE_LIMIT_CONFIG gives 5)
MaxBurst == 2
\* RateLimiter.window_size in clock ticks, scaled down (the code has 3600 s)
WindowSize == 4
\* the burst interval in clock ticks, scaled down (the code has 60 s)
BurstSeconds == 1
\* SMS limit of transaction alerts, scaled down (the code has 5 per 3600 s)
TxnMaxCount == 2
\* SMS limit of security alerts, scaled down (the code has 10 per 3600 s)
SecMaxCount == 3
\* the clock of the SMS service runs from 0 to SmsMaxTime
SmsMaxTime == 4
\* number of send_notification calls
MaxSends == 2
\* number of register_device calls
MaxRegs == 6
\* number of render_template calls
MaxRenders == 2
\* TEMPLATE_CACHE_SIZE, scaled down (utils/templates.py:21 has 1000)
CacheSize == 2
\* the clock of the email service runs from 0 to EmailMaxTime
EmailMaxTime == 3
\* window_seconds of both SMS limits in clock ticks (the code has 3600 s)
SmsWindow == 3

----------------------------------------------------------------------------
(* Values *)

NoTime == -1
NoError == "<None>"
\* Optional[Dict]: None, or a dict d
NoPatch == [none |-> TRUE, d |-> [k \in {} |-> TRUE]]
Some(d) == [none |-> FALSE, d |-> d]
EmptyDict == [k \in {} |-> TRUE]

Str(v) == [str |-> v]
Dict(d) == [dict |-> d]

\* datetime.isoformat(): the text of a timestamp
isoformat(t) == "T" \o ToString(t)

NotificationType ==
    {"transaction_alert", "security_alert", "mining_update", "marketing", "system_update"}

PENDING == "pending"
SENT == "sent"
DELIVERED == "delivered"
READ == "read"
FAILED == "failed"
NotificationStatus == {PENDING, SENT, DELIVERED, READ, FAILED}

----------------------------------------------------------------------------
(* NotificationStatus.validate_transition *)

valid_transitions ==
    [s \in NotificationStatus |->
        CASE s = PENDING   -> {SENT, FAILED}
          [] s = SENT      -> {DELIVERED, FAILED}
          [] s = DELIVERED -> {READ, FAILED}
          [] s = READ      -> {FAILED}
          [] s = FAILED    -> {}]

\* faulty variant: pending may go straight to delivered, and a status may be re-applied
validate_transition_skip(current, new) ==
    \/ new \in valid_transitions[current]
    \/ current = new
    \/ current = PENDING /\ new = DELIVERED

\* faulty variant: the terminal state gets a way out (a retried send that succeeds)
validate_transition_retry(current, new) ==
    \/ new \in valid_transitions[current]
    \/ current = FAILED /\ new = SENT

validate_transition(current, new) ==
    IF current \in DOMAIN valid_transitions
    THEN new \in valid_transitions[current]
    ELSE FALSE

----------------------------------------------------------------------------
(* Notification.update_status and Notification.mark_as_read *)

\* the fields of the notification, as one record
Fields ==
    [status |-> status, sent_at |-> sent_at, delivered_at |-> delivered_at,
     read_at |-> read_at, error_message |-> error_message,
     delivery_info |-> delivery_info]

\* faulty variant: dict replaced wholesale by the patch
dict_replace(d, patch) == patch

\* dict.update(patch): key-wise overwrite
dict_update(d, patch) ==
    [k \in DOMAIN d \cup DOMAIN patch |->
        IF k \in DOMAIN patch THEN patch[k] ELSE d[k]]

\* faulty variant: a transition to delivered also re-stamps sent_at
stamp_sent_at_always(new, old, t) == IF new \in {SENT, DELIVERED} THEN t ELSE old

\* lines 157-158
stamp_sent_at(new, old, t) == IF new = SENT THEN t ELSE old

\* lines 159-160
stamp_delivered_at(new, old, t) == IF new = DELIVERED THEN t ELSE old

\* lines 161-162
stamp_error_message(new, old, err) == IF new = FAILED THEN err ELSE old

\* lines 165-166: "if delivery_info:" is false for None and for an empty dict
apply_patch(d, patch) ==
    IF patch.none THEN d
    ELSE IF DOMAIN patch.d = {} THEN d
    ELSE dict_update(d, patch.d)

\* faulty variant: the patch is merged before the transition is validated
update_status_patch_first(new, err, patch) ==
    /\ call' = [op |-> "update_status", status |-> new, error |-> err,
                patch |-> patch, at |-> now,
                raised |-> ~validate_transition(status, new), before |-> Fields]
    /\ delivery_info' = apply_patch(delivery_info, patch)
    /\ IF validate_transition(status, new)
       THEN /\ status' = new
            /\ sent_at' = stamp_sent_at(new, sent_at, now)
            /\ delivered_at' = stamp_delivered_at(new, delivered_at, now)
            /\ error_message' = stamp_error_message(new, error_message, err)
            /\ UNCHANGED read_at
       ELSE UNCHANGED <<status, sent_at, delivered_at, read_at, error_message>>

\* Notification.update_status(status, error_message, delivery_info)
update_status(new, err, patch) ==
    /\ call' = [op |-> "update_status", status |-> new, error |-> err,
                patch |-> patch, at |-> now,
                raised |-> ~validate_transition(status, new), before |-> Fields]
    /\ IF ~validate_transition(status, new)
       THEN \* raise ValueError
            UNCHANGED notifVars
       ELSE /\ status' = new
            /\ sent_at' = stamp_sent_at(new, sent_at, now)
            /\ delivered_at' = stamp_delivered_at(new, delivered_at, now)
            /\ error_message' = stamp_error_message(new, error_message, err)
            /\ delivery_info' = apply_patch(delivery_info, patch)
            /\ UNCHANGED read_at

\* Notification.mark_as_read()
mark_as_read ==
    /\ call' = [op |-> "mark_as_read", status |-> READ, error |-> NoError,
                patch |-> NoPatch, at |-> now,
                raised |-> ~validate_transition(status, READ), before |-> Fields]
    /\ IF ~validate_transition(status, READ)
       THEN \* raise ValueError
            UNCHANGED notifVars
       ELSE /\ status' = READ
            /\ read_at' = now
            /\ delivery_info' =
                 [k \in DOMAIN delivery_info \cup {"read_timestamp"} |->
                    IF k = "read_timestamp" THEN Str(isoformat(now))
                    ELSE delivery_info[k]]
            /\ UNCHANGED <<sent_at, delivered_at, error_message>>

----------------------------------------------------------------------------
(* NotificationPreference *)

Channels == {"push", "email", "sms"}
\* channel = None
NoChannel == "<None>"

\* NotificationPreference(user_id=...): the field defaults
DefaultPreference ==
    [transaction_alerts |-> TRUE,
     security_alerts |-> TRUE,
     mining_updates |-> TRUE,
     marketing_notifications |-> FALSE,
     preferred_channel |-> "push",
     channel_preferences |-> [c \in Channels |-> c # "sms"],
     type_channel_matrix |->
        [t \in NotificationType |->
            CASE t = "transaction_alert" -> [c \in Channels |-> TRUE]
              [] t = "security_alert"    -> [c \in Channels |-> TRUE]
              [] t = "mining_update"     -> [c \in Channels |-> c = "push"]
              [] t = "marketing"         -> [c \in Channels |-> c = "email"]
              [] t = "system_update"     -> [c \in Channels |-> c # "sms"]]]

\* the boolean fields that switch a notification type on or off
TypeFlags ==
    {"transaction_alerts", "security_alerts", "mining_updates", "marketing_notifications"}

\* getattr(obj, name, default)
getattr(obj, name, default) == IF name \in DOMAIN obj THEN obj[name] ELSE default

\* dict.get(key, default)
dict_get(d, key, default) == IF key \in DOMAIN d THEN d[key] ELSE default

\* faulty variant: the type-channel matrix is not consulted
is_enabled_for_type_no_matrix(p, notification_type, channel) ==
    LET type_enabled == getattr(p, notification_type \o "s", TRUE)
        ch == IF channel = NoChannel THEN p.preferred_channel ELSE channel
    IN  IF ~type_enabled THEN FALSE
        ELSE dict_get(p.channel_preferences, ch, FALSE)

\* NotificationPreference.is_enabled_for_type(notification_type, channel)
is_enabled_for_type(p, notification_type, channel) ==
    LET type_enabled == getattr(p, notification_type \o "s", TRUE)
        ch == IF channel = NoChannel THEN p.preferred_channel ELSE channel
    IN  IF ~type_enabled THEN FALSE
        ELSE IF ~dict_get(p.channel_preferences, ch, FALSE) THEN FALSE
        ELSE dict_get(dict_get(p.type_channel_matrix, notification_type, EmptyDict),
                      ch, FALSE)

\* d without key k
dict_del(d, k) == [x \in DOMAIN d \ {k} |-> d[x]]

NoCheck == [op |-> "none", type |-> "system_update", channel |-> NoChannel,
            result |-> FALSE]

\* the owner of the preferences changes one type flag
SetTypeFlag ==
    \E f \in TypeFlags :
        /\ edits < MaxEdits
        /\ check = NoCheck
        /\ prefs' = [prefs EXCEPT ![f] = ~prefs[f]]
        /\ edits' = edits + 1
        /\ UNCHANGED check

\* the owner of the preferences changes the preferred channel
SetPreferredChannel ==
    \E c \in Channels \ {prefs.preferred_channel} :
        /\ edits < MaxEdits
        /\ check = NoCheck
        /\ prefs' = [prefs EXCEPT !.preferred_channel = c]
        /\ edits' = edits + 1
        /\ UNCHANGED check

\* the owner of the preferences sets or removes one channel's master flag
SetChannelPreference ==
    \E c \in Channels :
      \E cp \in {dict_update(prefs.channel_preferences, [k \in {c} |-> TRUE]),
                 dict_update(prefs.channel_preferences, [k \in {c} |-> FALSE]),
                 dict_del(prefs.channel_preferences, c)} :
        /\ edits < MaxEdits
        /\ check = NoCheck
        /\ cp # prefs.channel_preferences
        /\ prefs' = [prefs EXCEPT !.channel_preferences = cp]
        /\ edits' = edits + 1
        /\ UNCHANGED check

\* the owner of the preferences sets or removes one cell of the matrix
SetMatrixCell ==
    \E t \in DOMAIN prefs.type_channel_matrix, c \in Channels :
      \E row \in {dict_update(prefs.type_channel_matrix[t], [k \in {c} |-> TRUE]),
                  dict_update(prefs.type_channel_matrix[t], [k \in {c} |-> FALSE]),
                  dict_del(prefs.type_channel_matrix[t], c)} :
        /\ edits < MaxEdits
        /\ check = NoCheck
        /\ row # prefs.type_channel_matrix[t]
        /\ prefs' = [prefs EXCEPT !.type_channel_matrix[t] = row]
        /\ edits' = edits + 1
        /\ UNCHANGED check

\* the owner of the preferences removes the matrix row of one type
RemoveMatrixRow ==
    \E t \in DOMAIN prefs.type_channel_matrix :
        /\ edits < MaxEdits
        /\ check = NoCheck
        /\ prefs' = [prefs EXCEPT !.type_channel_matrix =
                        dict_del(prefs.type_channel_matrix, t)]
        /\ edits' = edits + 1
        /\ UNCHANGED check

\* a caller asks whether a type is enabled, with or without a channel
CheckEnabled ==
    \E t \in NotificationType, c \in Channels \cup {NoChannel} :
        /\ check = NoCheck
        /\ check' = [op |-> "is_enabled_for_type", type |-> t, channel |-> c,
                     result |-> is_enabled_for_type(prefs, t, c)]
        /\ UNCHANGED <<prefs, edits>>

----------------------------------------------------------------------------
(* RateLimiter (services/email_service.py:44-64) *)

\* recipient addresses that pass validate_email
Recipients == {"a@x", "b@x"}

\* faulty variant: old timestamps are never dropped
prune_keep_all(reqs, t) == reqs

\* line 55: the timestamps not older than the window
prune(reqs, t) == SelectSeq(reqs, LAMBDA ts : t - ts <= WindowSize)

\* line 60: the timestamps of the last burst interval
recent(reqs, t) == SelectSeq(reqs, LAMBDA ts : t - ts <= BurstSeconds)

\* faulty variant: one admission too many
window_full_off_by_one(reqs) == Len(reqs) > MaxPerHour

\* line 57
window_full(reqs) == Len(reqs) >= MaxPerHour

\* line 60: the count of the window minus the count of the burst interval
burst_exceeded(reqs, t) == Len(reqs) - Len(recent(reqs, t)) >= MaxBurst

\* the value acquire returns for the (unpruned) list reqs at time t
acquire_result(reqs, t) ==
    LET p == prune(reqs, t)
    IN  IF window_full(p) THEN FALSE
        ELSE IF burst_exceeded(p, t) THEN FALSE
        ELSE TRUE

\* self.requests after acquire at time t
acquire_requests(reqs, t) ==
    LET p == prune(reqs, t)
    IN  IF acquire_result(reqs, t) THEN Append(p, t) ELSE p

\* the number of timestamps of log in the closed interval [t - len, t]
CountIn(log, t, len) ==
    Len(SelectSeq(log, LAMBDA ts : ts <= t /\ t - ts <= len))

\* the last element of a log, NoTime for an empty one
LastOf(log) == IF Len(log) = 0 THEN NoTime ELSE log[Len(log)]

NoAcquire ==
    [called |-> FALSE, key |-> "a@x", at |-> 0, result |-> FALSE,
     win |-> 0, burst |-> 0, prev_last |-> NoTime, seen |-> <<>>]

\* await self._rate_limiters[r].acquire(): the coroutine has no suspension
\* point, so it runs as one step.  acq keeps what the call saw: the admitted
\* timestamps in the window and in the burst interval, the last admission,
\* and the pruned list the decision was taken on.
acquire(r) ==
    /\ r \in DOMAIN rate_limiters
    /\ rate_limiters' =
         [rate_limiters EXCEPT ![r] = acquire_requests(rate_limiters[r], now)]
    /\ acq' = [called |-> TRUE, key |-> r, at |-> now,
               result |-> acquire_result(rate_limiters[r], now),
               win |-> CountIn(admitted[r], now, WindowSize),
               burst |-> CountIn(admitted[r], now, BurstSeconds),
               prev_last |-> LastOf(admitted[r]),
               seen |-> prune(rate_limiters[r], now)]
    /\ admitted' =
         IF acquire_result(rate_limiters[r], now)
         THEN [admitted EXCEPT ![r] = Append(@, now)]
         ELSE admitted

\* no limiter object exists
LimiterIdle ==
    /\ rate_limiters = EmptyDict
    /\ acq = NoAcquire
    /\ admitted = [r \in Recipients |-> <<>>]

----------------------------------------------------------------------------
(* SMSService._check_rate_limit (services/sms_service.py:56-103) *)

\* one recipient: the entries of different phone numbers are separate
\* dictionaries (line 82) and never read together
PhoneNumbers == {"+20100"}

\* phone_number arguments of send_sms: the valid number and one that
\* phonenumbers.is_valid_number rejects
PhoneArgs == PhoneNumbers \cup {"12"}

\* lines 140-141: phonenumbers.parse and phonenumbers.is_valid_number
is_valid_number(phone_number) == phone_number \in PhoneNumbers

\* self._rate_limits, lines 57-61: type -> (max_count, window_seconds).
\* The third key of the literal, NotificationType.VERIFICATION_CODE, names
\* no member of the enum (models/notification.py:17-23).
rate_limits ==
    [t \in {"transaction_alert", "security_alert"} |->
        IF t = "transaction_alert"
        THEN [max_count |-> TxnMaxCount, window_seconds |-> SmsWindow]
        ELSE [max_count |-> SecMaxCount, window_seconds |-> SmsWindow]]

\* no tracking entry for a (phone number, type)
NoTracking == [present |-> FALSE, count |-> 0, window_start |-> 0]

\* lines 81-89: the stored entry, or a fresh one starting now
get_tracking(phone_number, notification_type) ==
    IF rate_tracking[phone_number][notification_type].present
    THEN rate_tracking[phone_number][notification_type]
    ELSE [present |-> TRUE, count |-> 0, window_start |-> now]

\* lines 91-94: a new window starts once the old one is over
reset_window(tracking, window_seconds) ==
    IF now - tracking.window_start > window_seconds
    THEN [tracking EXCEPT !.count = 0, !.window_start = now]
    ELSE tracking

\* the number of timestamps of log in the interval (t - len, t]
CountWithin(log, t, len) ==
    Len(SelectSeq(log, LAMBDA ts : ts <= t /\ t - ts < len))

NoSmsCheck ==
    [called |-> FALSE, phone_number |-> "+20100",
     notification_type |-> "marketing", result |-> FALSE]

\* _check_rate_limit(phone_number, notification_type)
check_rate_limit(phone_number, notification_type) ==
    IF notification_type \notin DOMAIN rate_limits
    THEN /\ sms_check' = [called |-> TRUE, phone_number |-> phone_number,
                          notification_type |-> notification_type,
                          result |-> TRUE]
         /\ UNCHANGED <<rate_tracking, sms_admitted>>
    ELSE LET limit == rate_limits[notification_type]
             tracking == reset_window(
                             get_tracking(phone_number, notification_type),
                             limit.window_seconds)
         IN  IF tracking.count >= limit.max_count
             THEN /\ sms_check' =
                       [called |-> TRUE, phone_number |-> phone_number,
                        notification_type |-> notification_type,
                        result |-> FALSE]
                  /\ UNCHANGED <<rate_tracking, sms_admitted>>
             ELSE /\ sms_check' =
                       [called |-> TRUE, phone_number |-> phone_number,
                        notification_type |-> notification_type,
                        result |-> TRUE]
                  /\ rate_tracking' =
                       [rate_tracking EXCEPT
                          ![phone_number][notification_type] =
                              [tracking EXCEPT !.count = @ + 1]]
                  /\ sms_admitted' =
                       [sms_admitted EXCEPT
                          ![phone_number][notification_type] =
                              Append(@, now)]

\* send_sms has not returned yet
NoSmsResult == [status |-> "<None>", error |-> NoError, provider_called |-> FALSE]

\* What send_sms returns after the rate-limit check of line 145.
\*   * denied: line 147 builds the dict with NotificationStatus.RATE_LIMITED,
\*     which names no member of the enum (models/notification.py:25-31); the
\*     AttributeError is caught at line 201 and the dict of lines 209-213 is
\*     returned, with status FAILED and str(e) as the error.
\*   * admitted: messages.create_async is awaited; the dict of lines 174-183
\*     on success, the one of lines 194-199 or 209-213 when Twilio or the
\*     transport raises.
send_sms_returns(allowed) ==
    IF ~allowed
    THEN {[status |-> FAILED, error |-> "RATE_LIMITED", provider_called |-> FALSE]}
    ELSE {[status |-> SENT, error |-> NoError, provider_called |-> TRUE],
          [status |-> FAILED, error |-> "timeout", provider_called |-> TRUE]}

\* self._rate_tracking = {}, line 62
SmsIdle ==
    /\ rate_tracking =
         [p \in PhoneArgs |-> [t \in NotificationType |-> NoTracking]]
    /\ sms_check = NoSmsCheck
    /\ sms_admitted =
         [p \in PhoneArgs |-> [t \in DOMAIN rate_limits |-> <<>>]]
    /\ sms_result = NoSmsResult

\* time passes between two sends
SmsTick ==
    /\ now < SmsMaxTime
    /\ now' = now + 1
    /\ UNCHANGED smsVars

\* send_sms for a valid number: the limit of the recipient and the type is
\* consulted (line 145) and the call returns (lines 146-213)
CheckRateLimit ==
    /\ \E p \in PhoneNumbers, t \in {"transaction_alert", "security_alert", "marketing"} :
         check_rate_limit(p, t)
    /\ sms_result' \in send_sms_returns(sms_check'.result)
    /\ UNCHANGED now

\* faulty variant: the rate limit is consulted before the number is validated
reaches_rate_limit_unvalidated(phone_number) == TRUE

\* lines 140-145: _check_rate_limit is reached by a number that passed the
\* validation of lines 140-142
reaches_rate_limit(phone_number) == is_valid_number(phone_number)

\* lines 140-142 and 201-213: for a number that is not valid, ValueError is
\* raised at line 142 (or NumberParseException by parse), caught at line 201
\* and returned as a FAILED dict
invalid_number_result ==
    [status |-> FAILED, error |-> "Invalid phone number", provider_called |-> FALSE]

\* send_sms(phone_number, message, notification_type), lines 117-213
SendSms(phone_number, notification_type) ==
    /\ IF reaches_rate_limit(phone_number)
       THEN check_rate_limit(phone_number, notification_type)
       ELSE UNCHANGED <<rate_tracking, sms_check, sms_admitted>>
    /\ sms_result' \in
         IF ~is_valid_number(phone_number) THEN {invalid_number_result}
         ELSE send_sms_returns(sms_check'.result)
    /\ UNCHANGED now

----------------------------------------------------------------------------
(* EmailService.send_email (services/email_service.py:113-176) *)

\* RETRY_CONFIG, lines 32-36
max_attempts == 3
max_delay == 30
min_delay == 1

\* the coroutines that call send_email concurrently
Tasks == {1, 2}

\* to_email arguments: the valid addresses and one that validate_email
\* rejects with EmailNotValidError
Addresses == Recipients \cup {"nobody"}

\* line 127: validate_email(to_email) returns, or raises EmailNotValidError;
\* the normalised form of an address of the model is the address
validate_email(to_email) == to_email \in Recipients

\* the template of the notification type: rendered, not found, or using a
\* variable that the context lacks (utils/templates.py:71-135)
Templates == {"ok", "missing", "undefined_variable"}

\* the providers configured, lines 96-107; get_email_config (config.py:86-92)
\* refuses a configuration with neither
EmailConfigs == {"sendgrid", "smtp", "both"}

RECURSIVE pow2(_)
pow2(n) == IF n = 0 THEN 1 ELSE 2 * pow2(n - 1)

\* wait_exponential(multiplier=min_delay, max=max_delay), line 115: the wait
\* after attempt number n
wait_exponential(n) ==
    LET result == min_delay * pow2(n - 1)
    IN  IF result < max_delay THEN result ELSE max_delay

\* stop_after_attempt(max_attempts), line 114
stop_after_attempt(n) == n >= max_attempts

NoTask ==
    [pc |-> "idle", to_email |-> "nobody", template |-> "ok",
     attempt_number |-> 0, wake_at |-> 0, result |-> "<None>",
     errors |-> <<>>, waits |-> <<>>, provider_calls |-> <<>>]

\* EmailService(config, template_manager), lines 89-111: no limiter, no
\* statistics, no call in progress
EmailInit ==
    /\ email_config \in EmailConfigs
    /\ tasks = [t \in Tasks |-> NoTask]

\* the email service is not used
EmailIdle ==
    /\ email_config = "both"
    /\ tasks = [t \in Tasks |-> NoTask]

\* a coroutine calls send_email(to_email, subject, notification_type, context)
CallSendEmail(t) ==
    /\ tasks[t].pc = "idle"
    /\ \E to_email \in Addresses, template \in Templates :
         tasks' = [tasks EXCEPT ![t] =
                     [@ EXCEPT !.pc = "running", !.to_email = to_email,
                               !.template = template, !.attempt_number = 1]]
    /\ UNCHANGED <<now, email_config, limVars>>

\* One attempt, lines 125-176, up to its first suspension.
\*   * validate_email raises EmailNotValidError: the handler of lines 169-171
\*     returns False.
\*   * otherwise to_email has no limiter (line 131: _rate_limiters is empty in
\*     every reachable state, since line 132 is its only writer) and line 132
\*     calls RateLimiter(**RATE_LIMIT_CONFIG).  RATE_LIMIT_CONFIG has the key
\*     max_emails_per_hour, RateLimiter.__init__ the parameter max_per_hour:
\*     the call raises TypeError before anything is stored.  The handler of
\*     lines 172-176 finds no statistics of to_email (they are created at
\*     line 140 only) and re-raises.  The retry decorator then stops with
\*     RetryError after max_attempts attempts, or sleeps wait_exponential.
\* Lines 134-167 (acquire, rendering, the providers) are reached by no call.
Attempt(t) ==
    /\ tasks[t].pc = "running"
    /\ IF ~validate_email(tasks[t].to_email)
       THEN tasks' = [tasks EXCEPT ![t] =
                [@ EXCEPT !.pc = "returned", !.result = "False",
                          !.errors = Append(@, "EmailNotValidError")]]
       ELSE /\ tasks[t].to_email \notin DOMAIN rate_limiters
            /\ IF stop_after_attempt(tasks[t].attempt_number)
               THEN tasks' = [tasks EXCEPT ![t] =
                        [@ EXCEPT !.pc = "raised", !.result = "RetryError",
                                  !.errors = Append(@, "TypeError")]]
               ELSE tasks' = [tasks EXCEPT ![t] =
                        [@ EXCEPT !.pc = "sleeping",
                                  !.errors = Append(@, "TypeError"),
                                  !.waits = Append(@,
                                      wait_exponential(tasks[t].attempt_number)),
                                  !.wake_at = now +
                                      wait_exponential(tasks[t].attempt_number)]]
    /\ UNCHANGED <<now, email_config, limVars>>

\* the sleep of the retry decorator is over: the next attempt starts
Wake(t) ==
    /\ tasks[t].pc = "sleeping"
    /\ now >= tasks[t].wake_at
    /\ tasks' = [tasks EXCEPT ![t] =
                    [@ EXCEPT !.pc = "running", !.attempt_number = @ + 1]]
    /\ UNCHANGED <<now, email_config, limVars>>

\* time passes while the coroutines are suspended
EmailTick ==
    /\ now < EmailMaxTime
    /\ now' = now + 1
    /\ UNCHANGED <<emailVars, limVars>>

----------------------------------------------------------------------------
(* NotificationTemplateManager (utils/templates.py:29-251) *)

\* line 22
SUPPORTED_LOCALES == {"en", "ar", "fr"}

\* locale = None
NoLocale == "<None>"

\* locale arguments: omitted, two supported ones and an unsupported one
LocaleArgs == {NoLocale, "en", "ar", "de"}

\* notification types rendered: one that _preload_templates loads and one
\* that it does not (lines 238-242)
TemplateTypes == {"transaction_alert", "marketing"}
common_types == {"transaction_alert", "security_alert", "mining_update"}

\* channel arguments: a valid one and an invalid one
ChannelArgs == {"email", "fax"}
valid_channels == {"email", "sms", "push"}

\* template contexts: one that defines every variable of the template and
\* one that lacks a variable
Contexts == {"full", "lacking"}

\* line 164
template_path_of(locale, notification_type, channel) ==
    locale \o "/" \o notification_type \o "/" \o channel \o ".j2"

\* the template files that may exist under TEMPLATE_DIR
TemplateFiles ==
    {template_path_of(l, t, "email") : l \in {"en", "ar"}, t \in TemplateTypes}

\* a returned value, or the exception raised
Returned(v) == [error |-> NoError, value |-> v]
Raised(e) == [error |-> e, value |-> ""]

\* lines 159-161
effective_locale(locale) ==
    LET l == IF locale = NoLocale THEN "en" ELSE locale
    IN  IF l \notin SUPPORTED_LOCALES THEN "en" ELSE l

\* get_template_path(notification_type, channel, locale), lines 137-173
get_template_path(files, notification_type, channel, locale) ==
    IF channel \notin valid_channels THEN Raised("ValueError: Invalid channel")
    ELSE LET template_path ==
                 template_path_of(effective_locale(locale), notification_type, channel)
         IN  IF template_path \notin files
             THEN Raised("ValueError: Template not found")
             ELSE Returned(template_path)

\* line 100: f"{template_path}:{locale or 'default'}"
cache_key(template_path, locale) ==
    template_path \o ":" \o (IF locale = NoLocale THEN "default" ELSE locale)

\* faulty variant: the loaded template is not kept
cache_put_skip(cache, key, template) == cache

\* line 107
cache_put(cache, key, template) ==
    [k \in DOMAIN cache \cup {key} |-> IF k = key THEN template ELSE cache[k]]

\* template.render(**context), line 110: the text of the template with the
\* variables filled in; StrictUndefined raises SecurityError for a variable
\* that the context lacks (lines 24-27)
template_render(template, context) ==
    IF context = "lacking" THEN Raised("SecurityError: Undefined template variable")
    ELSE Returned(template \o "(" \o context \o ")")

\* _preload_templates, lines 236-251: the templates of the common types,
\* under the key of the path and "en"
preloaded(files) ==
    LET keys == {kc \in common_types \X valid_channels :
                    get_template_path(files, kc[1], kc[2], NoLocale).error = NoError}
        paths == {get_template_path(files, kc[1], kc[2], NoLocale).value : kc \in keys}
    IN  [k \in {pth \o ":en" : pth \in paths} |->
            CHOOSE pth \in paths : pth \o ":en" = k]

NoRenderArgs ==
    [notification_type |-> "marketing", channel |-> "fax",
     locale |-> NoLocale, context |-> "full"]

NoRender ==
    [n |-> 0, args |-> NoRenderArgs, loaded |-> FALSE, result |-> Raised("not called"),
     prev_args |-> NoRenderArgs, prev_result |-> Raised("not called"),
     prev_loaded |-> FALSE]

\* render_template(notification_type, channel, context, locale), lines 71-135
render_template(notification_type, channel, context, locale) ==
    LET args == [notification_type |-> notification_type, channel |-> channel,
                 locale |-> locale, context |-> context]
        path == get_template_path(tpl_files, notification_type, channel, locale)
        key  == cache_key(path.value, locale)
        hit  == key \in DOMAIN template_cache
        template == IF hit THEN template_cache[key] ELSE path.value
    IN  /\ render.n < MaxRenders
        /\ IF path.error # NoError
           THEN /\ render' = [n |-> render.n + 1, args |-> args, loaded |-> FALSE,
                              result |-> path,
                              prev_args |-> render.args,
                              prev_result |-> render.result,
                              prev_loaded |-> render.loaded]
                /\ UNCHANGED template_cache
           ELSE /\ render' = [n |-> render.n + 1, args |-> args, loaded |-> ~hit,
                              result |-> template_render(template, context),
                              prev_args |-> render.args,
                              prev_result |-> render.result,
                              prev_loaded |-> render.loaded]
                /\ template_cache' =
                     IF hit THEN template_cache
                     ELSE cache_put(template_cache, key, path.value)
        /\ UNCHANGED <<tpl_files, filters, filter_call>>

\* a caller renders a template
RenderTemplate ==
    \E t \in TemplateTypes, c \in ChannelArgs, x \in Contexts, l \in LocaleArgs :
        render_template(t, c, x, l)

\* filter names passed to register_filter: the two default filters, one of
\* jinja2's own filters, two unused names, and two that str.isidentifier
\* rejects
FilterNames ==
    {"currency", "secure_truncate", "upper", "mask", "iban", "2fa", "a-b"}

\* name.isidentifier(), line 189
isidentifier(name) == name \notin {"2fa", "a-b"}

\* filter functions passed to register_filter
FilterFuncs == {"f", "g"}

\* _env.filters after __init__: jinja2's filters (line 47) and the two of
\* _register_default_filters (lines 199-210)
default_filters ==
    [n \in {"upper", "currency", "secure_truncate"} |->
        IF n = "upper" THEN "jinja2.upper"
        ELSE IF n = "currency" THEN "currency_format" ELSE "secure_truncate"]

\* faulty variant: a name that is already registered is accepted
filter_error_overwrite(table, name) ==
    IF ~isidentifier(name) THEN "ValueError: Invalid filter name"
    ELSE NoError

\* the error that register_filter raises for a name, lines 189-193
filter_error(table, name) ==
    IF ~isidentifier(name) THEN "ValueError: Invalid filter name"
    ELSE IF name \in DOMAIN table THEN "ValueError: Filter already exists"
    ELSE NoError

NoFilterCall ==
    [called |-> FALSE, name |-> "2fa", filter_func |-> "f",
     error |-> NoError, before |-> EmptyDict]

\* register_filter(name, filter_func), lines 178-197
register_filter(name, filter_func) ==
    LET error == filter_error(filters, name)
    IN  /\ filters' = IF error # NoError THEN filters
                      ELSE [n \in DOMAIN filters \cup {name} |->
                               IF n = name THEN filter_func ELSE filters[n]]
        /\ filter_call' = [called |-> TRUE, name |-> name,
                           filter_func |-> filter_func,
                           error |-> error, before |-> filters]
        /\ UNCHANGED <<tpl_files, template_cache, render>>

\* a caller registers a filter
RegisterFilter ==
    \E name \in FilterNames, f \in FilterFuncs : register_filter(name, f)

\* the template manager is not used
TplIdle ==
    /\ tpl_files = {}
    /\ template_cache = EmptyDict
    /\ render = NoRender
    /\ filters = EmptyDict
    /\ filter_call = NoFilterCall

\* NotificationTemplateManager(), lines 35-69, over some template directory
TplInit ==
    /\ tpl_files \in SUBSET TemplateFiles
    /\ template_cache = preloaded(tpl_files)
    /\ render = NoRender
    /\ filters = default_filters
    /\ filter_call = NoFilterCall

----------------------------------------------------------------------------
(* PushNotificationService.register_device (services/push_notification.py:75-124) *)

\* the literals of lines 109-110: at most token_limit entries, of which
\* ltrim(key, -4, -1) keeps the last keep_last
token_limit == 5
keep_last == 4

Platforms == {"ios", "android"}

\* (device_token, platform) arguments: an Android token, an iOS token and a
\* token of a platform that line 90 rejects
RegArgs == {<<"fcm-1", "android">>, <<"apns-1", "ios">>, <<"web-1", "web">>}

\* the coroutines that call register_device concurrently
RegTasks == {1, 2}

\* token_data, lines 99-105
token_data(device_token, platform) ==
    [token |-> device_token, platform |-> platform, status |-> "active"]

\* faulty variant: nothing is trimmed
ltrim_last_noop(list, n) == list

\* redis LTRIM key -n -1: the last n elements
ltrim_last(list, n) ==
    IF Len(list) <= n THEN list ELSE SubSeq(list, Len(list) - n + 1, Len(list))

\* redis LPUSH key value: the new head
lpush(list, value) == <<value>> \o list

NoReg == [pc |-> "idle", device_token |-> "web-1", platform |-> "web",
          result |-> "<None>"]

\* no call of register_device yet: calls counts the calls made, overlap
\* tells whether two calls were ever in progress together, trimmed whether
\* line 107 has run, pushed counts the entries pushed, and order holds, for
\* each entry of the list, the how-manieth pushed entry it is
NoRegGhost ==
    [calls |-> 0, overlap |-> FALSE, trimmed |-> FALSE,
     pushed |-> 0, order |-> <<>>]

\* lines 88-90: an invalid platform raises ValueError, caught at line 122
RegisterDevice(t) ==
    /\ reg[t].pc = "idle"
    /\ reg_ghost.calls < MaxRegs
    /\ \E a \in RegArgs :
         reg' = [reg EXCEPT ![t] =
                   IF a[2] \notin Platforms
                   THEN [pc |-> "idle", device_token |-> a[1],
                         platform |-> a[2], result |-> "False"]
                   ELSE [pc |-> "sismember", device_token |-> a[1],
                         platform |-> a[2], result |-> "<None>"]]
    /\ reg_ghost' = [reg_ghost EXCEPT
                       !.calls = @ + 1,
                       !.overlap = @ \/ (reg'[t].pc # "idle" /\
                                         \E u \in RegTasks \ {t} : reg[u].pc # "idle")]
    /\ UNCHANGED <<device_tokens, blacklisted_tokens>>

\* lines 93-95: a blacklisted token is refused
RegSismember(t) ==
    /\ reg[t].pc = "sismember"
    /\ reg' = [reg EXCEPT ![t] =
                 IF reg[t].device_token \in blacklisted_tokens[reg[t].platform]
                 THEN [@ EXCEPT !.pc = "idle", !.result = "False"]
                 ELSE [@ EXCEPT !.pc = "lrange"]]
    /\ UNCHANGED <<device_tokens, blacklisted_tokens, reg_ghost>>

\* lines 108-109: the list is read and its length compared with the limit
RegLrange(t) ==
    /\ reg[t].pc = "lrange"
    /\ reg' = [reg EXCEPT ![t].pc =
                 IF Len(device_tokens) >= token_limit THEN "ltrim" ELSE "lpush"]
    /\ UNCHANGED <<device_tokens, blacklisted_tokens, reg_ghost>>

\* line 110
RegLtrim(t) ==
    /\ reg[t].pc = "ltrim"
    /\ device_tokens' = ltrim_last(device_tokens, keep_last)
    /\ reg' = [reg EXCEPT ![t].pc = "lpush"]
    /\ reg_ghost' = [reg_ghost EXCEPT
                       !.trimmed = TRUE,
                       !.order = ltrim_last(@, keep_last)]
    /\ UNCHANGED blacklisted_tokens

\* line 113
RegLpush(t) ==
    /\ reg[t].pc = "lpush"
    /\ device_tokens' =
         lpush(device_tokens, token_data(reg[t].device_token, reg[t].platform))
    /\ reg' = [reg EXCEPT ![t].pc = "expire"]
    /\ reg_ghost' = [reg_ghost EXCEPT
                       !.pushed = @ + 1,
                       !.order = lpush(@, reg_ghost.pushed + 1)]
    /\ UNCHANGED blacklisted_tokens

\* lines 116-120: the expiry is set and the call returns True
RegExpire(t) ==
    /\ reg[t].pc = "expire"
    /\ reg' = [reg EXCEPT ![t] = [@ EXCEPT !.pc = "idle", !.result = "True"]]
    /\ UNCHANGED <<device_tokens, blacklisted_tokens, reg_ghost>>

\* an empty registry and no call in progress
RegistryIdle ==
    /\ device_tokens = <<>>
    /\ blacklisted_tokens = [p \in Platforms |-> {}]
    /\ reg = [t \in RegTasks |-> NoReg]
    /\ reg_ghost = NoRegGhost

\* an empty registry and some blacklist left by earlier sends
RegistryInit ==
    /\ device_tokens = <<>>
    /\ blacklisted_tokens \in
         {[p \in Platforms |-> {}],
          [p \in Platforms |-> IF p = "ios" THEN {"apns-1"} ELSE {}]}
    /\ reg = [t \in RegTasks |-> NoReg]
    /\ reg_ghost = NoRegGhost

----------------------------------------------------------------------------
(* PushNotificationService.send_notification (services/push_notification.py:126-318) *)

\* lines 72-73
max_retries == 3
retry_delay == 1

\* the device tokens of the model, and the platform each belongs to
DeviceTokens == {"fcm-1", "fcm-2", "apns-1", "apns-2"}

\* the registries a user can have built with register_device
Registries ==
    {<<>>,
     <<token_data("fcm-1", "android")>>,
     <<token_data("apns-1", "ios")>>,
     <<token_data("fcm-1", "android"), token_data("apns-1", "ios")>>,
     <<token_data("fcm-1", "android"), token_data("fcm-2", "android")>>,
     <<token_data("apns-1", "ios"), token_data("apns-2", "ios")>>}

\* lines 156-162: the active tokens of a platform, in list order
RECURSIVE tokens_of(_, _)
tokens_of(tokens_data, android) ==
    IF tokens_data = <<>> THEN <<>>
    ELSE LET d == Head(tokens_data)
             rest == tokens_of(Tail(tokens_data), android)
         IN  IF d.status = "active" /\ ((d.platform = "android") = android)
             THEN <<d.token>> \o rest
             ELSE rest

\* the elements of a sequence
Range(seq) == {seq[i] : i \in DOMAIN seq}

\* faulty variant: one attempt more before giving up
is_last_attempt_late(attempt) == attempt = max_retries

\* lines 245 and 304: attempt == self._max_retries - 1
is_last_attempt(attempt) == attempt = max_retries - 1

\* lines 247 and 307: self._retry_delay * (attempt + 1)
linear_wait(attempt) == retry_delay * (attempt + 1)

\* no send_notification call yet.  Besides the locals of the call the record
\* keeps: sends, the calls made; submits and attempts, the provider calls of
\* this send for the FCM batch and for each APNS token; wait, the last sleep
\* and the number of attempts made before it; accepted, the tokens a
\* provider accepted in this send; ended, the tokens whose attempts a
\* BadDeviceToken ended, with the attempts made until then; resent, the
\* tokens passed to a provider while blacklisted; sadd_transient, the tokens
\* added to a blacklist on a failure that the provider reported as
\* transient; before, the notification as it was when the call began.
NoPush ==
    [pc |-> "idle", sends |-> 0,
     android_tokens |-> <<>>, ios_tokens |-> <<>>,
     attempt |-> 0, ios_idx |-> 1,
     fcm_success |-> FALSE, apns_results |-> <<>>,
     result |-> "<None>",
     submits |-> 0, attempts |-> [k \in DeviceTokens |-> 0],
     wait |-> [after |-> 0, delay |-> 0],
     accepted |-> {}, ended |-> [k \in {} |-> 0], resent |-> {},
     sadd_transient |-> {},
     before |-> [status |-> PENDING, error_message |-> NoError,
                 delivery_info |-> EmptyDict]]

\* the blacklisted tokens of either platform
Blacklisted == blacklisted_tokens["android"] \cup blacklisted_tokens["ios"]

\* where the call goes once the FCM part is over
after_fcm(p) == IF p.ios_tokens # <<>> THEN "apns" ELSE "update"

\* a caller awaits send_notification(notification), for a new pending
\* notification or for the notification of the call before
PushSend(fresh) ==
    /\ push.pc \in {"idle", "returned", "raised"}
    /\ push.sends < MaxSends
    /\ IF fresh
       THEN /\ status' = PENDING
            /\ sent_at' = NoTime
            /\ delivered_at' = NoTime
            /\ read_at' = NoTime
            /\ error_message' = NoError
            /\ delivery_info' = EmptyDict
       ELSE UNCHANGED notifVars
    /\ push' = [NoPush EXCEPT
                  !.pc = "lrange", !.sends = push.sends + 1,
                  !.before = [status |-> status', error_message |-> error_message',
                              delivery_info |-> delivery_info']]
    /\ UNCHANGED <<call, registryVars>>

\* An update_status of the call.  When it raises ValueError the handler of
\* lines 191-194 calls update_status(FAILED, str(e)) and returns False; when
\* that raises too, the exception leaves send_notification.
push_update_status(new, err, patch, returns) ==
    IF validate_transition(status, new)
    THEN /\ update_status(new, err, patch)
         /\ push' = [push EXCEPT !.pc = "returned", !.result = returns]
    ELSE /\ update_status(FAILED, "ValueError: Invalid status transition", NoPatch)
         /\ push' = [push EXCEPT
                       !.pc = IF validate_transition(status, FAILED)
                              THEN "returned" ELSE "raised",
                       !.result = IF validate_transition(status, FAILED)
                                  THEN "False" ELSE "ValueError"]

\* lines 143-162: the tokens are read and grouped by platform; a user
\* without tokens makes the notification failed
PushLrange ==
    /\ push.pc = "lrange"
    /\ IF device_tokens = <<>>
       THEN push_update_status(FAILED, "No registered devices", NoPatch, "False")
       ELSE /\ push' = [push EXCEPT
                          !.android_tokens = tokens_of(device_tokens, TRUE),
                          !.ios_tokens = tokens_of(device_tokens, FALSE),
                          !.pc = IF tokens_of(device_tokens, TRUE) # <<>>
                                 THEN "fcm" ELSE "apns"]
            /\ UNCHANGED <<notifVars, call>>
    /\ UNCHANGED registryVars

\* _send_fcm, lines 230-249: send_multicast returns a batch response, in
\* which the tokens of ok succeeded, those of transient failed for a
\* transient reason (unavailable, quota exceeded) and the others were
\* reported invalid; or it raises.  Lines 239-243 look at result.success
\* only.
FcmSubmit ==
    /\ push.pc = "fcm"
    /\ \/ \E ok \in SUBSET Range(push.android_tokens) :
          \E transient \in SUBSET (Range(push.android_tokens) \ ok) :
            /\ push' = [push EXCEPT
                          !.submits = @ + 1,
                          !.sadd_transient = @ \cup transient,
                          !.resent = @ \cup (Range(push.android_tokens) \cap Blacklisted),
                          !.fcm_success = ok # {},
                          !.accepted = @ \cup ok,
                          !.attempt = 0,
                          !.pc = after_fcm(push)]
            /\ blacklisted_tokens' =
                 [blacklisted_tokens EXCEPT
                    !["android"] = @ \cup (Range(push.android_tokens) \ ok)]
       \/ /\ push' = [push EXCEPT
                        !.submits = @ + 1,
                        !.resent = @ \cup (Range(push.android_tokens) \cap Blacklisted),
                        !.attempt = IF is_last_attempt(push.attempt) THEN 0 ELSE @ + 1,
                        !.wait = IF is_last_attempt(push.attempt) THEN @
                                 ELSE [after |-> push.attempt + 1,
                                       delay |-> linear_wait(push.attempt)],
                        !.pc = IF is_last_attempt(push.attempt)
                               THEN after_fcm(push) ELSE "fcm"]
          /\ UNCHANGED blacklisted_tokens
    /\ UNCHANGED <<notifVars, call, device_tokens>>

\* the token of the APNS loop, line 291
CurrentToken == push.ios_tokens[push.ios_idx]

\* the APNS loop moves to the next token, or ends
next_token(p, success) ==
    [p EXCEPT !.apns_results = Append(@, success),
              !.attempt = 0,
              !.ios_idx = @ + 1,
              !.pc = IF p.ios_idx = Len(p.ios_tokens) THEN "update" ELSE "apns"]

\* _send_apns, lines 291-309: one send to the current token, which succeeds,
\* raises BadDeviceToken, or raises something else
ApnsSend ==
    /\ push.pc = "apns"
    /\ LET sent == [push EXCEPT
                      !.attempts[CurrentToken] = @ + 1,
                      !.resent = @ \cup ({CurrentToken} \cap Blacklisted)]
       IN  \/ /\ push' = [next_token(sent, TRUE) EXCEPT
                            !.accepted = @ \cup {CurrentToken}]
              /\ UNCHANGED blacklisted_tokens
           \/ /\ push' = [next_token(sent, FALSE) EXCEPT
                            !.ended = [k \in DOMAIN @ \cup {CurrentToken} |->
                                         IF k = CurrentToken
                                         THEN sent.attempts[CurrentToken]
                                         ELSE @[k]]]
              /\ blacklisted_tokens' =
                   [blacklisted_tokens EXCEPT !["ios"] = @ \cup {CurrentToken}]
           \/ /\ push' = IF is_last_attempt(push.attempt)
                         THEN next_token(sent, FALSE)
                         ELSE [sent EXCEPT
                                 !.attempt = @ + 1,
                                 !.wait = [after |-> push.attempt + 1,
                                           delay |-> linear_wait(push.attempt)]]
              /\ UNCHANGED blacklisted_tokens
    /\ UNCHANGED <<notifVars, call, device_tokens>>

\* line 312: any(r["success"] for r in results)
apns_success(p) == \E i \in DOMAIN p.apns_results : p.apns_results[i]

\* lines 164-176: success and the delivery_info of the platforms tried
push_success(p) ==
    /\ p.android_tokens # <<>> => p.fcm_success
    /\ p.ios_tokens # <<>> => apns_success(p)

push_delivery_info(p) ==
    [k \in (IF p.android_tokens # <<>> THEN {"fcm"} ELSE {}) \cup
           (IF p.ios_tokens # <<>> THEN {"apns"} ELSE {}) |->
        Dict([success |-> IF k = "fcm" THEN p.fcm_success ELSE apns_success(p)])]

\* lines 178-189: the notification is updated and the call returns
PushUpdate ==
    /\ push.pc = "update"
    /\ IF push_success(push)
       THEN push_update_status(SENT, NoError, Some(push_delivery_info(push)), "True")
       ELSE push_update_status(FAILED, "Partial or complete delivery failure",
                               Some(push_delivery_info(push)), "False")
    /\ UNCHANGED registryVars

----------------------------------------------------------------------------
(* The per-user lock of send_notification (services/push_notification.py:136-194) *)

\* the users whose notifications are sent, and the coroutines that call
\* send_notification concurrently
Users == {"u1", "u2"}
SendTasks == {1, 2, 3}

\* faulty variant: one key for every user
rate_limit_key_global(user_id) == "rate_limit:"

\* line 138
rate_limit_key(user_id) == "rate_limit:" \o user_id

\* asyncio.Lock(): not held, nobody waiting
NewLock == [locked |-> FALSE, waiters |-> <<>>]

\* lines 139-140: the lock of the key is created when the key is new
with_lock(table, key) ==
    [k \in DOMAIN table \cup {key} |->
        IF k \in DOMAIN table THEN table[k] ELSE NewLock]

\* Lock.release(), on leaving the block of line 142 normally or with an
\* exception
release(table, key) == [table EXCEPT ![key].locked = FALSE]

\* no send_notification call of the coroutine yet; waited tells whether the
\* call had to wait for the lock, raised whether it left the block of line
\* 142 with an exception
NoSender ==
    [pc |-> "idle", user_id |-> "u1", result |-> "<None>",
     waited |-> FALSE, raised |-> FALSE]

\* the positions at which a call holds the lock of its user
Holding == {"lrange", "providers"}

\* lines 136-142: the lock is looked up or created and entered; the call
\* goes on when the lock is free and nobody waits for it, and queues up
\* otherwise
LockSend(t) ==
    /\ senders[t].pc = "idle"
    /\ \E user_id \in Users :
         LET key == rate_limit_key(user_id)
             table == with_lock(push_rate_limiters, key)
             free == ~table[key].locked /\ table[key].waiters = <<>>
         IN  /\ push_rate_limiters' =
                  [table EXCEPT ![key] =
                      IF free THEN [@ EXCEPT !.locked = TRUE]
                      ELSE [@ EXCEPT !.waiters = Append(@, t)]]
             /\ senders' = [senders EXCEPT ![t] =
                  [pc |-> IF free THEN "lrange" ELSE "waiting",
                   user_id |-> user_id, result |-> "<None>",
                   waited |-> ~free, raised |-> FALSE]]

\* line 142: the first waiter of a released lock takes it
LockResume(t) ==
    /\ senders[t].pc = "waiting"
    /\ LET key == rate_limit_key(senders[t].user_id)
       IN  /\ ~push_rate_limiters[key].locked
           /\ push_rate_limiters[key].waiters # <<>>
           /\ Head(push_rate_limiters[key].waiters) = t
           /\ push_rate_limiters' =
                [push_rate_limiters EXCEPT ![key] =
                    [locked |-> TRUE, waiters |-> Tail(@.waiters)]]
    /\ senders' = [senders EXCEPT ![t].pc = "lrange"]

\* lines 143-162 and 191-194: lrange returns the tokens and the call goes
\* on to the providers; or it returns none and the call updates the
\* notification and returns False (lines 146-149); or it raises, the block
\* is left, and the handler updates the notification and returns False
LockLrange(t) ==
    /\ senders[t].pc = "lrange"
    /\ \/ /\ senders' = [senders EXCEPT ![t].pc = "providers"]
          /\ UNCHANGED push_rate_limiters
       \/ \E raised \in BOOLEAN :
            /\ senders' = [senders EXCEPT ![t] =
                 [@ EXCEPT !.pc = "idle", !.result = "False", !.raised = raised]]
            /\ push_rate_limiters' =
                 release(push_rate_limiters, rate_limit_key(senders[t].user_id))

\* lines 164-194: the providers have answered, the notification is updated
\* and the call returns; when update_status raises, the block is left and
\* the handler updates the notification and returns False
LockProviders(t) ==
    /\ senders[t].pc = "providers"
    /\ \E r \in {<<"True", FALSE>>, <<"False", FALSE>>, <<"False", TRUE>>} :
         senders' = [senders EXCEPT ![t] =
             [@ EXCEPT !.pc = "idle", !.result = r[1], !.raised = r[2]]]
    /\ push_rate_limiters' =
         release(push_rate_limiters, rate_limit_key(senders[t].user_id))

\* PushNotificationService(), line 68: no lock, no call
LockIdle ==
    /\ push_rate_limiters = EmptyDict
    /\ senders = [t \in SendTasks |-> NoSender]

\* a user with some registered tokens, none blacklisted, and a pending
\* notification
PushInit ==
    /\ device_tokens \in Registries
    /\ blacklisted_tokens = [p \in Platforms |-> {}]
    /\ reg = [t \in RegTasks |-> NoReg]
    /\ reg_ghost = NoRegGhost
    /\ push = NoPush
    /\ LockIdle

PushIdle == RegistryIdle /\ push = NoPush /\ LockIdle

SenderIdle == LimiterIdle /\ SmsIdle /\ EmailIdle /\ TplIdle /\ PushIdle

\* RateLimiter(max_per_hour, max_burst), lines 46-50: no request yet
LimiterInit ==
    /\ rate_limiters = [r \in {"a@x"} |-> <<>>]
    /\ acq = NoAcquire
    /\ admitted = [r \in Recipients |-> <<>>]

\* time passes between two calls
LimiterTick ==
    /\ now < MaxTime
    /\ now' = now + 1
    /\ UNCHANGED limVars

\* a caller awaits acquire() of the limiter
LimiterAcquire ==
    /\ acquire("a@x")
    /\ UNCHANGED now

----------------------------------------------------------------------------
(* The notification state machine driven by arbitrary callers *)

ErrorArgs == {NoError, "timeout"}
PatchKeys == {"provider", "read_timestamp"}
PatchVals == {Str("a"), Str("b")}
\* None, the empty dict, and dicts over one or two of the keys
PatchArgs ==
    {NoPatch, Some(EmptyDict)} \cup
    {Some(d) : d \in [{"provider"} -> PatchVals]} \cup
    {Some(d) : d \in [PatchKeys -> {Str("a")}] \cup [{"read_timestamp"} -> {Str("a")}]}

NoCall ==
    [op |-> "none", status |-> PENDING, error |-> NoError, patch |-> NoPatch,
     at |-> 0, raised |-> FALSE,
     before |-> [status |-> PENDING, sent_at |-> NoTime, delivered_at |-> NoTime,
                 read_at |-> NoTime, error_message |-> NoError,
                 delivery_info |-> EmptyDict]]

\* Notification(...): created pending, no timestamps, empty delivery_info
NotifInit ==
    /\ status = PENDING
    /\ sent_at = NoTime
    /\ delivered_at = NoTime
    /\ read_at = NoTime
    /\ error_message = NoError
    /\ delivery_info = EmptyDict
    /\ now = 0
    /\ call = NoCall

PrefIdle ==
    /\ prefs = EmptyDict
    /\ edits = 0
    /\ check = NoCheck

OrchIdle ==
    /\ pc = "idle"
    /\ req_type = "system_update"
    /\ channels = <<>>
    /\ idx = 1
    /\ delivery_statuses = EmptyDict
    /\ final_status = PENDING
    /\ send_calls = [c \in Channels |-> 0]
    /\ raised_channels = {}
    /\ update_calls = 0

Tick ==
    /\ now < MaxClock
    /\ now' = now + 1
    /\ UNCHANGED <<notifVars, call>>

CallUpdateStatus ==
    \E new \in NotificationStatus, err \in ErrorArgs, patch \in PatchArgs :
        /\ update_status(new, err, patch)
        /\ UNCHANGED now

CallMarkAsRead ==
    /\ mark_as_read
    /\ UNCHANGED now

Init == NotifInit /\ PrefIdle /\ OrchIdle /\ SenderIdle

Next ==
    \/ Tick /\ UNCHANGED <<prefVars, orchVars, senderVars>>
    \/ CallUpdateStatus /\ UNCHANGED <<prefVars, orchVars, senderVars>>
    \/ CallMarkAsRead /\ UNCHANGED <<prefVars, orchVars, senderVars>>

Spec == Init /\ [][Next]_vars

\* the preferences of one user, changed by their owner and then queried
PrefInit ==
    /\ prefs = DefaultPreference
    /\ edits = 0
    /\ check = NoCheck

InitPref == NotifInit /\ PrefInit /\ OrchIdle /\ SenderIdle

NextPref ==
    \/ SetTypeFlag /\ UNCHANGED <<notifVars, now, call, orchVars, senderVars>>
    \/ SetPreferredChannel /\ UNCHANGED <<notifVars, now, call, orchVars, senderVars>>
    \/ SetChannelPreference /\ UNCHANGED <<notifVars, now, call, orchVars, senderVars>>
    \/ SetMatrixCell /\ UNCHANGED <<notifVars, now, call, orchVars, senderVars>>
    \/ RemoveMatrixRow /\ UNCHANGED <<notifVars, now, call, orchVars, senderVars>>
    \/ CheckEnabled /\ UNCHANGED <<notifVars, now, call, orchVars, senderVars>>

SpecPref == InitPref /\ [][NextPref]_vars

----------------------------------------------------------------------------
(* The delivery orchestrator: send_notification (app.py:122-191) *)

\* the fixed order in which channels are considered
ChannelOrder == <<"push", "email", "sms">>

\* the channels of ChannelOrder, from position i on, that pass the test
RECURSIVE enabled_from(_, _, _)
enabled_from(p, t, i) ==
    IF i > Len(ChannelOrder) THEN <<>>
    ELSE IF is_enabled_for_type(p, t, ChannelOrder[i])
         THEN <<ChannelOrder[i]>> \o enabled_from(p, t, i + 1)
         ELSE enabled_from(p, t, i + 1)

\* determine_delivery_channels: every channel enabled for the type, in the
\* fixed order; a user without preferences gets every channel
determine_delivery_channels(t, p) ==
    IF p = EmptyDict THEN ChannelOrder ELSE enabled_from(p, t, 1)

\* what send_through_channel returns when it returns
ChannelStatus == {"sent", "failed"}

\* determine_final_status: sent when a channel succeeded, failed when every
\* channel failed; the result for no channel at all is left open
determine_final_status(statuses) ==
    IF DOMAIN statuses = {} THEN {SENT, FAILED}
    ELSE IF \E c \in DOMAIN statuses : statuses[c] = "sent" THEN {SENT}
    ELSE {FAILED}

\* the channel the loop is at
CurrentChannel == channels[idx]

\* lines 138-151: tracking info, channel selection, empty status map
Receive ==
    /\ pc = "idle"
    /\ delivery_info' =
         dict_update(delivery_info,
                     [k \in {"correlation_id", "initiated_at"} |->
                        IF k = "correlation_id" THEN Str("cid")
                        ELSE Str(isoformat(now))])
    /\ channels' = determine_delivery_channels(req_type, prefs)
    /\ delivery_statuses' = EmptyDict
    /\ idx' = 1
    /\ pc' = "loop"
    /\ UNCHANGED <<status, sent_at, delivered_at, read_at, error_message, call,
                   req_type, final_status, send_calls, raised_channels, update_calls>>

\* line 152, 155: the loop takes the next channel and awaits its send
SendStart ==
    /\ pc = "loop"
    /\ idx <= Len(channels)
    /\ send_calls' = [send_calls EXCEPT ![CurrentChannel] = @ + 1]
    /\ pc' = "await"
    /\ UNCHANGED <<notifVars, call, req_type, channels, idx, delivery_statuses,
                   final_status, raised_channels, update_calls>>

\* lines 155-163: the send returns a status, which is recorded
SendReturns ==
    \E st \in ChannelStatus :
        /\ pc = "await"
        /\ delivery_statuses' =
             dict_update(delivery_statuses, [k \in {CurrentChannel} |-> st])
        /\ idx' = idx + 1
        /\ pc' = "loop"
        /\ UNCHANGED <<notifVars, call, req_type, channels, final_status,
                       send_calls, raised_channels, update_calls>>

\* faulty variant: an exception of one channel ends the loop
SendRaises_abort ==
    /\ pc = "await"
    /\ raised_channels' = raised_channels \cup {CurrentChannel}
    /\ delivery_statuses' =
         dict_update(delivery_statuses, [k \in {CurrentChannel} |-> "failed"])
    /\ idx' = Len(channels) + 1
    /\ pc' = "loop"
    /\ UNCHANGED <<notifVars, call, req_type, channels, final_status,
                   send_calls, update_calls>>

\* lines 165-167: the send raises; the channel is recorded as failed
SendRaises ==
    /\ pc = "await"
    /\ raised_channels' = raised_channels \cup {CurrentChannel}
    /\ delivery_statuses' =
         dict_update(delivery_statuses, [k \in {CurrentChannel} |-> "failed"])
    /\ idx' = idx + 1
    /\ pc' = "loop"
    /\ UNCHANGED <<notifVars, call, req_type, channels, final_status,
                   send_calls, update_calls>>

\* lines 170-174, 189-191: the call of update_status and what follows it
apply_final_status(fs) ==
    /\ final_status' = fs
    /\ update_status(fs, NoError,
                     Some([k \in {"channel_statuses"} |-> Dict(delivery_statuses)]))
    /\ update_calls' = update_calls + 1
    /\ pc' = IF validate_transition(status, fs) THEN "done" ELSE "error"
    /\ UNCHANGED <<req_type, channels, idx, delivery_statuses,
                   send_calls, raised_channels>>

\* faulty variant: the final status is computed as soon as one outcome is recorded
Finalize_wait_first ==
    /\ pc = "loop"
    /\ idx > 1 \/ channels = <<>>
    /\ \E fs \in determine_final_status(delivery_statuses) : apply_final_status(fs)

\* lines 169-174: after the loop, the final status is computed and applied
Finalize ==
    /\ pc = "loop"
    /\ idx > Len(channels)
    /\ \E fs \in determine_final_status(delivery_statuses) : apply_final_status(fs)

\* channel master flags a user may have set
OrchPrefs ==
    {[DefaultPreference EXCEPT !.channel_preferences = cp] :
        cp \in [Channels -> BOOLEAN]} \cup {EmptyDict}

\* one inbound request: a pending notification of some type, for a user
\* with some preferences or none
InitOrch ==
    /\ NotifInit
    /\ prefs \in OrchPrefs
    /\ edits = 0
    /\ check = NoCheck
    /\ pc = "idle"
    /\ req_type \in NotificationType
    /\ channels = <<>>
    /\ idx = 1
    /\ delivery_statuses = EmptyDict
    /\ final_status = PENDING
    /\ send_calls = [c \in Channels |-> 0]
    /\ raised_channels = {}
    /\ update_calls = 0
    /\ SenderIdle

NextOrch ==
    \/ Receive /\ UNCHANGED <<now, prefVars, senderVars>>
    \/ SendStart /\ UNCHANGED <<now, prefVars, senderVars>>
    \/ SendReturns /\ UNCHANGED <<now, prefVars, senderVars>>
    \/ SendRaises /\ UNCHANGED <<now, prefVars, senderVars>>
    \/ Finalize /\ UNCHANGED <<now, prefVars, senderVars>>

SpecOrch == InitOrch /\ [][NextOrch]_vars

----------------------------------------------------------------------------
(* One rate limiter driven by arbitrary callers *)

InitLimiter ==
    NotifInit /\ PrefIdle /\ OrchIdle /\ LimiterInit /\ SmsIdle /\ EmailIdle /\ TplIdle /\ PushIdle

NextLimiter ==
    \/ LimiterTick /\ UNCHANGED <<notifVars, call, prefVars, orchVars, smsVars, emailVars, tplVars, pushVars>>
    \/ LimiterAcquire /\ UNCHANGED <<notifVars, call, prefVars, orchVars, smsVars, emailVars, tplVars, pushVars>>

SpecLimiter == InitLimiter /\ [][NextLimiter]_vars

----------------------------------------------------------------------------
(* The SMS rate limit driven by arbitrary sends *)

InitSms ==
    NotifInit /\ PrefIdle /\ OrchIdle /\ LimiterIdle /\ SmsIdle /\ EmailIdle /\ TplIdle /\ PushIdle

NextSms ==
    \/ SmsTick /\ UNCHANGED <<notifVars, call, prefVars, orchVars, limVars, emailVars, tplVars, pushVars>>
    \/ CheckRateLimit /\ UNCHANGED <<notifVars, call, prefVars, orchVars, limVars, emailVars, tplVars, pushVars>>

SpecSms == InitSms /\ [][NextSms]_vars

----------------------------------------------------------------------------
(* Concurrent send_email calls on one EmailService *)

InitEmail ==
    NotifInit /\ PrefIdle /\ OrchIdle /\ LimiterIdle /\ SmsIdle /\ EmailInit /\ TplIdle /\ PushIdle

NextEmail ==
    \/ EmailTick /\ UNCHANGED <<notifVars, call, prefVars, orchVars, smsVars, tplVars, pushVars>>
    \/ \E t \in Tasks :
         CallSendEmail(t) /\ UNCHANGED <<notifVars, call, prefVars, orchVars, smsVars, tplVars, pushVars>>
    \/ \E t \in Tasks :
         Attempt(t) /\ UNCHANGED <<notifVars, call, prefVars, orchVars, smsVars, tplVars, pushVars>>
    \/ \E t \in Tasks :
         Wake(t) /\ UNCHANGED <<notifVars, call, prefVars, orchVars, smsVars, tplVars, pushVars>>

SpecEmail == InitEmail /\ [][NextEmail]_vars

----------------------------------------------------------------------------
(* One caller of send_email and callers of send_sms, with valid and invalid
   destinations *)

InitValidation ==
    /\ NotifInit /\ PrefIdle /\ OrchIdle
    /\ LimiterIdle /\ SmsIdle /\ EmailInit /\ TplIdle /\ PushIdle

otherThanValidation ==
    <<notifVars, call, prefVars, orchVars, tplVars, pushVars>>

NextValidation ==
    \/ EmailTick /\ UNCHANGED <<smsVars, otherThanValidation>>
    \/ CallSendEmail(1) /\ UNCHANGED <<smsVars, otherThanValidation>>
    \/ Attempt(1) /\ UNCHANGED <<smsVars, otherThanValidation>>
    \/ Wake(1) /\ UNCHANGED <<smsVars, otherThanValidation>>
    \/ \E p \in PhoneArgs, t \in {"transaction_alert", "marketing"} :
         SendSms(p, t) /\ UNCHANGED <<limVars, emailVars, otherThanValidation>>

SpecValidation == InitValidation /\ [][NextValidation]_vars

----------------------------------------------------------------------------
(* One template manager used by arbitrary callers *)

InitTemplates ==
    /\ NotifInit /\ PrefIdle /\ OrchIdle
    /\ LimiterIdle /\ SmsIdle /\ EmailIdle /\ TplInit /\ PushIdle

NextTemplates ==
    RenderTemplate
        /\ UNCHANGED <<notifVars, now, call, prefVars, orchVars,
                       limVars, smsVars, emailVars, pushVars>>

SpecTemplates == InitTemplates /\ [][NextTemplates]_vars

----------------------------------------------------------------------------
(* One template manager on which callers register filters *)

NextFilters ==
    RegisterFilter
        /\ UNCHANGED <<notifVars, now, call, prefVars, orchVars,
                       limVars, smsVars, emailVars, pushVars>>

SpecFilters == InitTemplates /\ [][NextFilters]_vars

----------------------------------------------------------------------------
(* Concurrent register_device calls for one user *)

InitRegister ==
    /\ NotifInit /\ PrefIdle /\ OrchIdle
    /\ LimiterIdle /\ SmsIdle /\ EmailIdle /\ TplIdle
    /\ RegistryInit /\ push = NoPush /\ LockIdle

otherThanRegister ==
    <<notifVars, now, call, prefVars, orchVars,
      limVars, smsVars, emailVars, tplVars, push, lockVars>>

NextRegister ==
    \/ \E t \in RegTasks : RegisterDevice(t) /\ UNCHANGED otherThanRegister
    \/ \E t \in RegTasks : RegSismember(t) /\ UNCHANGED otherThanRegister
    \/ \E t \in RegTasks : RegLrange(t) /\ UNCHANGED otherThanRegister
    \/ \E t \in RegTasks : RegLtrim(t) /\ UNCHANGED otherThanRegister
    \/ \E t \in RegTasks : RegLpush(t) /\ UNCHANGED otherThanRegister
    \/ \E t \in RegTasks : RegExpire(t) /\ UNCHANGED otherThanRegister

SpecRegister == InitRegister /\ [][NextRegister]_vars

----------------------------------------------------------------------------
(* send_notification calls for one user, one at a time (the lock of line 142) *)

InitPush ==
    /\ NotifInit /\ PrefIdle /\ OrchIdle
    /\ LimiterIdle /\ SmsIdle /\ EmailIdle /\ TplIdle
    /\ PushInit

otherThanPush ==
    <<now, prefVars, orchVars, limVars, smsVars, emailVars, tplVars, regVars,
      lockVars>>

NextPush ==
    \/ \E fresh \in BOOLEAN : PushSend(fresh) /\ UNCHANGED otherThanPush
    \/ PushLrange /\ UNCHANGED otherThanPush
    \/ FcmSubmit /\ UNCHANGED otherThanPush
    \/ ApnsSend /\ UNCHANGED otherThanPush
    \/ PushUpdate /\ UNCHANGED otherThanPush

SpecPush == InitPush /\ [][NextPush]_vars

\* every provider call returns and every sleep ends
SpecPushFair == SpecPush /\ WF_vars(NextPush)

----------------------------------------------------------------------------
(* Concurrent send_notification calls for two users *)

otherThanLock ==
    <<notifVars, now, call, prefVars, orchVars,
      limVars, smsVars, emailVars, tplVars, registryVars, regVars, push>>

\* a step of the call of one coroutine after it entered line 142
LockStep(t) ==
    (LockResume(t) \/ LockLrange(t) \/ LockProviders(t))
        /\ UNCHANGED otherThanLock

NextLock ==
    \/ \E t \in SendTasks : LockSend(t) /\ UNCHANGED otherThanLock
    \/ \E t \in SendTasks : LockResume(t) /\ UNCHANGED otherThanLock
    \/ \E t \in SendTasks : LockLrange(t) /\ UNCHANGED otherThanLock
    \/ \E t \in SendTasks : LockProviders(t) /\ UNCHANGED otherThanLock

SpecLock == Init /\ [][NextLock]_vars

\* every awaited call of a coroutine returns, and the event loop runs a
\* coroutine whose wait is over
SpecLockFair == SpecLock /\ \A t \in SendTasks : WF_vars(LockStep(t))

----------------------------------------------------------------------------
(* Properties of the notification state machine (checked under Spec) *)

\* the adjacency table of the specification, written out pair by pair
TransitionTable ==
    {<<PENDING, SENT>>, <<PENDING, FAILED>>,
     <<SENT, DELIVERED>>, <<SENT, FAILED>>,
     <<DELIVERED, READ>>, <<DELIVERED, FAILED>>,
     <<READ, FAILED>>}

\* C1: update_status(new) on a notification whose status is current succeeds
\* and sets status to new iff (current, new) is in the transition table;
\* every other pair, self-transitions included, is rejected with an error
\* and the status stays current.
C1_UpdateStatusIffInTable ==
    call.op = "update_status" =>
        /\ (~call.raised) <=> (<<call.before.status, call.status>> \in TransitionTable)
        /\ ~call.raised => status = call.status
        /\ call.raised => status = call.before.status

\* C1 witness: a transition of the table (read -> failed) was applied
C1_Witness ==
    /\ call.op = "update_status"
    /\ call.before.status = READ
    /\ call.status = FAILED
    /\ ~call.raised
    /\ status = FAILED

\* C2: a call that is not an allowed transition (update_status with a status
\* outside the table, mark_as_read from a status other than delivered) raises
\* and leaves status, sent_at, delivered_at, read_at, error_message and
\* delivery_info as they were, whatever error and patch were passed.
C2_RejectedChangesNothing ==
    (call.op # "none" /\ <<call.before.status, call.status>> \notin TransitionTable) =>
        /\ call.raised
        /\ Fields = call.before

\* C2 witness: a rejected update_status that carried an error message and a
\* non-empty patch, on a notification that already had delivery_info
C2_Witness ==
    /\ call.op = "update_status"
    /\ call.raised
    /\ call.error # NoError
    /\ ~call.patch.none
    /\ DOMAIN call.patch.d # {}
    /\ DOMAIN delivery_info # {}

\* C3: failed is absorbing: no step changes the status of a failed
\* notification.
C3_FailedIsAbsorbing == [][status = FAILED => status' = FAILED]_vars

\* C3 witness: update_status(sent) was attempted on a failed notification
C3_Witness ==
    /\ status = FAILED
    /\ call.op = "update_status"
    /\ call.before.status = FAILED
    /\ call.status = SENT

\* C4: a successful update_status stamps exactly the field of the
\* transition: sent_at on a transition to sent, delivered_at on a transition
\* to delivered, error_message (the error passed) on a transition to failed;
\* the other timestamps, and error_message on the other transitions, keep
\* their values.
C4_StampsExactlyOneField ==
    (call.op = "update_status" /\ ~call.raised) =>
        /\ sent_at = IF call.status = SENT THEN call.at ELSE call.before.sent_at
        /\ delivered_at =
             IF call.status = DELIVERED THEN call.at ELSE call.before.delivered_at
        /\ read_at = call.before.read_at
        /\ error_message =
             IF call.status = FAILED THEN call.error ELSE call.before.error_message

\* C4 witness: a transition to delivered at a later time than the transition
\* to sent
C4_Witness ==
    /\ call.op = "update_status"
    /\ ~call.raised
    /\ call.status = DELIVERED
    /\ call.before.sent_at # NoTime
    /\ call.at # call.before.sent_at
    /\ delivered_at = call.at

\* what a successful patch does to delivery_info
PatchMerged(before, after, patch) ==
    /\ DOMAIN after = DOMAIN before \cup DOMAIN patch
    /\ \A k \in DOMAIN patch : after[k] = patch[k]
    /\ \A k \in DOMAIN before \ DOMAIN patch : after[k] = before[k]

\* C5 (as stated): no call removes a key of delivery_info; a patch adds or
\* overwrites the keys it names and keeps the others; every call without a
\* patch, mark_as_read included, leaves delivery_info unchanged.
C5_Original ==
    call.op # "none" =>
        /\ DOMAIN call.before.delivery_info \subseteq DOMAIN delivery_info
        /\ (~call.raised /\ ~call.patch.none) =>
              PatchMerged(call.before.delivery_info, delivery_info, call.patch.d)
        /\ call.patch.none => delivery_info = call.before.delivery_info

\* C5 (amended): no call removes a key of delivery_info; a patch adds or
\* overwrites the keys it names and keeps the others; an update_status call
\* without a patch leaves delivery_info unchanged; a successful mark_as_read
\* adds or overwrites the key read_timestamp and nothing else.
C5_DeliveryInfoMerged ==
    call.op # "none" =>
        /\ DOMAIN call.before.delivery_info \subseteq DOMAIN delivery_info
        /\ (~call.raised /\ ~call.patch.none) =>
              PatchMerged(call.before.delivery_info, delivery_info, call.patch.d)
        /\ (call.op = "update_status" /\ call.patch.none) =>
              delivery_info = call.before.delivery_info
        /\ (call.op = "mark_as_read" /\ ~call.raised) =>
              PatchMerged(call.before.delivery_info, delivery_info,
                          [k \in {"read_timestamp"} |-> Str(isoformat(call.at))])

\* C5 witness: a patch overwrote one key and another key was kept
C5_Witness ==
    /\ call.op = "update_status"
    /\ ~call.raised
    /\ ~call.patch.none
    /\ \E k \in DOMAIN call.patch.d :
         /\ k \in DOMAIN call.before.delivery_info
         /\ call.before.delivery_info[k] # call.patch.d[k]
    /\ \E k \in DOMAIN call.before.delivery_info : k \notin DOMAIN call.patch.d

\* C37: a notification whose status is read has read_at set and
\* read_timestamp in its delivery_info.
C37_ReadHasReadAt ==
    status = READ =>
        /\ read_at # NoTime
        /\ "read_timestamp" \in DOMAIN delivery_info

----------------------------------------------------------------------------
(* Properties of the orchestrator (checked under SpecOrch) *)

\* the set of selected channels
Selected == {channels[i] : i \in 1..Len(channels)}

\* the channels whose recorded status is "sent"
Succeeded == {c \in DOMAIN delivery_statuses : delivery_statuses[c] = "sent"}

\* C6: send_through_channel is invoked exactly once for every selected
\* channel, whatever earlier channels returned or raised; a channel whose
\* send raised is recorded as "failed"; channel_statuses ends with exactly
\* one entry per selected channel.
C6_FanOutIsolation ==
    /\ \A c \in Channels : send_calls[c] <= 1
    /\ \A c \in Channels \ Selected : send_calls[c] = 0
    /\ pc = "loop" =>
         \A i \in 1..Len(channels) :
            i < idx => send_calls[channels[i]] = 1 /\ channels[i] \in DOMAIN delivery_statuses
    /\ \A c \in raised_channels :
         c \in DOMAIN delivery_statuses /\ delivery_statuses[c] = "failed"
    /\ pc \in {"done", "error"} =>
         /\ \A c \in Selected : send_calls[c] = 1
         /\ DOMAIN delivery_statuses = Selected
    /\ pc = "done" =>
         /\ "channel_statuses" \in DOMAIN delivery_info
         /\ DOMAIN delivery_info["channel_statuses"].dict = Selected

\* C6 witness: three channels, the first raised, and the other two were
\* still sent through
C6_Witness ==
    /\ pc = "done"
    /\ Len(channels) = 3
    /\ channels[1] \in raised_channels
    /\ send_calls[channels[2]] = 1
    /\ delivery_statuses[channels[3]] = "sent"

Bool(b) == [bool |-> b]

\* C7: all channels succeeded -> sent without a partial flag; some succeeded
\* and some failed -> sent with delivery_info.partial = true; all failed ->
\* failed with a non-empty error_message.
C7_FinalStatusFromOutcomes ==
    (pc = "done" /\ Selected # {}) =>
        /\ Succeeded = Selected =>
              status = SENT /\ "partial" \notin DOMAIN delivery_info
        /\ (Succeeded # {} /\ Succeeded # Selected) =>
              /\ status = SENT
              /\ "partial" \in DOMAIN delivery_info
              /\ delivery_info["partial"] = Bool(TRUE)
        /\ Succeeded = {} =>
              status = FAILED /\ error_message \notin {NoError, ""}

\* C8: update_status is called exactly once per request, only after every
\* selected channel has a recorded outcome, and no channel send starts once
\* the final status has been computed.
C8_WaitAll ==
    /\ [](/\ update_calls <= 1
          /\ update_calls = 1 => DOMAIN delivery_statuses = Selected
          /\ pc = "done" => update_calls = 1
          /\ update_calls = 0 => status = PENDING)
    /\ [][update_calls >= 1 => send_calls' = send_calls]_vars

\* C8 witness: a request over three channels has been completed
C8_Witness ==
    /\ pc = "done"
    /\ update_calls = 1
    /\ Len(channels) = 3
    /\ \A c \in Selected : send_calls[c] = 1

----------------------------------------------------------------------------
(* Properties of the preference check (checked under SpecPref) *)

\* the global flag of a type as the documentation of the fields gives it
GlobalFlag(p, t) ==
    CASE t = "transaction_alert" -> p.transaction_alerts
      [] t = "security_alert"    -> p.security_alerts
      [] t = "mining_update"     -> p.mining_updates
      [] t = "marketing"         -> p.marketing_notifications
      [] OTHER                   -> TRUE

\* the (type, channel) cell is present in the matrix and true
CellOn(p, t, c) ==
    /\ t \in DOMAIN p.type_channel_matrix
    /\ c \in DOMAIN p.type_channel_matrix[t]
    /\ p.type_channel_matrix[t][c]

\* the channel's master flag is present and true
ChannelOn(p, c) ==
    c \in DOMAIN p.channel_preferences /\ p.channel_preferences[c]

\* C9: is_enabled_for_type(type, channel) is true iff the type's global flag
\* is on, channel_preferences[channel] is true and the matrix cell is true.
C9_EnabledIffFlagChannelCell ==
    (check.op = "is_enabled_for_type" /\ check.channel # NoChannel) =>
        check.result =
            (/\ GlobalFlag(prefs, check.type)
             /\ ChannelOn(prefs, check.channel)
             /\ CellOn(prefs, check.type, check.channel))

\* C10: when the (type, channel) cell is false or absent the channel is not
\* enabled for the type, whatever the type flag, the channel's master flag
\* and the preferred channel are.
C10_CellOffExcludes ==
    (check.op = "is_enabled_for_type" /\ check.channel # NoChannel
        /\ ~CellOn(prefs, check.type, check.channel)) =>
        check.result = FALSE

\* C10 witness: sms asked for transaction_alert with the cell false while
\* the type flag and the sms master flag are on
C10_Witness ==
    /\ check.op = "is_enabled_for_type"
    /\ check.type = "transaction_alert"
    /\ check.channel = "sms"
    /\ prefs.transaction_alerts
    /\ ChannelOn(prefs, "sms")
    /\ "sms" \in DOMAIN prefs.type_channel_matrix["transaction_alert"]
    /\ ~prefs.type_channel_matrix["transaction_alert"]["sms"]
    /\ check.result = FALSE

----------------------------------------------------------------------------
(* RateLimiter.acquire (services/email_service.py:52-64) *)

\* C11: at every time so far the admitted timestamps inside the trailing
\* window of WindowSize number at most MaxPerHour, and an acquire made while
\* MaxPerHour admitted timestamps are inside the window returned false.
C11_WindowCap ==
    /\ \A r \in Recipients : \A t \in 0..now :
         CountIn(admitted[r], t, WindowSize) <= MaxPerHour
    /\ (acq.called /\ acq.win >= MaxPerHour) => ~acq.result

\* the window is full and the call is denied
C11_Witness ==
    /\ acq.called
    /\ acq.win = MaxPerHour
    /\ Len(acq.seen) = MaxPerHour
    /\ ~acq.result

\* C12: an acquire made more than WindowSize after the last admitted call
\* returns true, whatever was admitted or denied before.
C12_Recovery ==
    (/\ acq.called
     /\ acq.prev_last # NoTime
     /\ acq.at - acq.prev_last > WindowSize) => acq.result

\* the window had been filled, it elapsed, and the next call is admitted
C12_Witness ==
    /\ acq.called
    /\ acq.prev_last # NoTime
    /\ acq.at - acq.prev_last > WindowSize
    /\ Len(admitted[acq.key]) > MaxPerHour
    /\ acq.result

\* C13: at every time so far the admitted timestamps inside the trailing
\* burst interval number at most MaxBurst, and an acquire made while MaxBurst
\* admitted timestamps are inside the burst interval returned false.
C13_BurstCap ==
    /\ \A r \in Recipients : \A t \in 0..now :
         CountIn(admitted[r], t, BurstSeconds) <= MaxBurst
    /\ (acq.called /\ acq.burst >= MaxBurst) => ~acq.result

\* C14: acquire returns false only when the window holds MaxPerHour admitted
\* timestamps or the burst interval holds MaxBurst of them.
C14_DeniesOnlyForStatedReasons ==
    (acq.called /\ ~acq.result) =>
        (acq.win >= MaxPerHour \/ acq.burst >= MaxBurst)

----------------------------------------------------------------------------
(* SMSService._check_rate_limit (services/sms_service.py:64-103) *)

\* C16: for every phone number and every type with a configured limit, the
\* sends admitted within any trailing interval of window_seconds number at
\* most that type's max_count.
C16_SmsLimitInAnyInterval ==
    \A p \in PhoneNumbers : \A ty \in DOMAIN rate_limits : \A t \in 0..now :
        CountWithin(sms_admitted[p][ty], t, rate_limits[ty].window_seconds)
            <= rate_limits[ty].max_count

----------------------------------------------------------------------------
(* EmailService.send_email (services/email_service.py:113-176) *)

\* a send_email call that is over: it returned or it raised
Finished(t) == tasks[t].pc \in {"returned", "raised"}

\* a send_email call whose address passed validate_email and whose first
\* attempt is over
PastValidation(t) ==
    /\ validate_email(tasks[t].to_email)
    /\ Len(tasks[t].errors) >= 1

\* C15: whatever the interleaving of the calls, every recipient whose call
\* got past validation has exactly one limiter, the admitted timestamps of a
\* recipient's window number at most MaxPerHour, and the limiter holds
\* exactly the admitted timestamps still in the window.
C15_OneLimiterPerRecipient ==
    /\ \A t \in Tasks :
         PastValidation(t) => tasks[t].to_email \in DOMAIN rate_limiters
    /\ \A r \in Recipients :
         CountIn(admitted[r], now, WindowSize) <= MaxPerHour
    /\ \A r \in DOMAIN rate_limiters :
         Len(prune(rate_limiters[r], now)) =
             CountIn(admitted[r], now, WindowSize)

\* C17: no send_email call ends by raising to its caller; every call that is
\* over has returned an outcome.
C17_SendEmailNeverRaises ==
    \A t \in Tasks :
        /\ tasks[t].pc # "raised"
        /\ Finished(t) => tasks[t].result \in {"True", "False"}

\* C18: a call with an invalid address, a missing template or an undefined
\* template variable makes one attempt and never waits.
C18_ValidationNeverRetried ==
    \A t \in Tasks :
        (\/ ~validate_email(tasks[t].to_email)
         \/ tasks[t].template \in {"missing", "undefined_variable"})
        => (tasks[t].attempt_number <= 1 /\ tasks[t].waits = <<>>)

\* C19: a call is re-attempted only after a provider failed on the attempt
\* before, and a call whose attempts are exhausted reports the failure
\* outcome False.
C19_ProviderFailuresRetried ==
    \A t \in Tasks :
        /\ tasks[t].attempt_number > 1 => tasks[t].provider_calls # <<>>
        /\ (Finished(t) /\ stop_after_attempt(tasks[t].attempt_number))
               => tasks[t].result = "False"

\* C20: an attempt for a valid address and a renderable template calls
\* SendGrid first when SendGrid is configured, and SMTP first otherwise.
C20_PrimaryProviderFirst ==
    \A t \in Tasks :
        (PastValidation(t) /\ tasks[t].template = "ok") =>
            /\ tasks[t].provider_calls # <<>>
            /\ tasks[t].provider_calls[1] =
                 (IF email_config \in {"sendgrid", "both"}
                  THEN "sendgrid" ELSE "smtp")

\* C38: a send_email call with an invalid address returns False after one
\* attempt with no provider call and leaves the limiters as they were; a
\* send_sms call with an invalid number returns a failure with no provider
\* call and leaves the rate tracking as it was.
C38_ValidationBeforeAdmission ==
    /\ [](/\ \A t \in Tasks :
               (tasks[t].pc # "idle" /\ ~validate_email(tasks[t].to_email)) =>
                   /\ tasks[t].provider_calls = <<>>
                   /\ tasks[t].attempt_number = 1
                   /\ Finished(t) => tasks[t].result = "False"
          /\ sms_result.error = "Invalid phone number" =>
                   /\ sms_result.status = FAILED
                   /\ ~sms_result.provider_called)
    /\ [][/\ \A t \in Tasks :
               ~validate_email(tasks'[t].to_email) =>
                   (tasks'[t] = tasks[t] \/ rate_limiters' = rate_limiters)
          /\ sms_result'.error = "Invalid phone number" =>
                   rate_tracking' = rate_tracking]_vars

\* after a valid send consumed a slot of the number's limit, a send to an
\* invalid number has failed; and a send_email to an invalid address has
\* returned False
C38_Witness ==
    /\ sms_result = invalid_number_result
    /\ rate_tracking["+20100"]["transaction_alert"].count >= 1
    /\ tasks[1].pc = "returned"
    /\ ~validate_email(tasks[1].to_email)
    /\ tasks[1].result = "False"

----------------------------------------------------------------------------
(* SMSService.send_sms (services/sms_service.py:117-213) *)

\* C21: a send that the rate limiter denies returns an outcome that is not
\* the outcome of a failed delivery, and no provider is called for it.
C21_DenialIsItsOwnOutcome ==
    (sms_check.called /\ ~sms_check.result) =>
        /\ sms_result.status # FAILED
        /\ ~sms_result.provider_called

\* C28: a security alert is never denied by the rate limiter.
C28_SecurityAlertNeverDenied ==
    (sms_check.called /\ sms_check.notification_type = "security_alert")
        => sms_check.result

----------------------------------------------------------------------------
(* NotificationTemplateManager.render_template (utils/templates.py:71-176) *)

\* the template file of the locale asked for (of "en" when none is asked for)
RequestedPath(a) ==
    template_path_of(IF a.locale = NoLocale THEN "en" ELSE a.locale,
                     a.notification_type, a.channel)

\* the template file of the default locale
DefaultPath(a) == template_path_of("en", a.notification_type, a.channel)

\* C29: a render with a valid channel and a full context uses the template
\* of the requested locale when that file exists, else the template of the
\* default locale when that file exists, and raises template-not-found only
\* when neither exists.
C29_LocaleFallback ==
    (/\ render.n >= 1
     /\ render.args.channel \in valid_channels
     /\ render.args.context = "full") =>
        render.result =
            IF RequestedPath(render.args) \in tpl_files
            THEN Returned(RequestedPath(render.args) \o "(full)")
            ELSE IF DefaultPath(render.args) \in tpl_files
            THEN Returned(DefaultPath(render.args) \o "(full)")
            ELSE Raised("ValueError: Template not found")

\* C30: when a render_template call repeats the arguments of the call before
\* it and that call returned output, it returns the same output and does not
\* load the template.
C30_SecondRenderFromCache ==
    (/\ render.n >= 2
     /\ render.args = render.prev_args
     /\ render.prev_result.error = NoError) =>
        /\ render.result = render.prev_result
        /\ ~render.loaded

\* a template that was not preloaded is rendered twice with the locale
\* omitted: loaded by the first call, taken from the cache by the second
C30_Witness ==
    /\ render.n >= 2
    /\ render.args = render.prev_args
    /\ render.args.locale = NoLocale
    /\ render.args.notification_type = "marketing"
    /\ render.prev_loaded
    /\ render.prev_result.error = NoError
    /\ render.result = render.prev_result
    /\ ~render.loaded

\* C31: the template cache never holds more than TEMPLATE_CACHE_SIZE
\* entries, whatever render_template calls are made.
C31_CacheBounded == Cardinality(DOMAIN template_cache) <= CacheSize

\* C32: register_filter raises exactly when the name is not an identifier
\* or is already registered, a call that raises leaves the filter table as
\* it was, and the function bound to a registered name never changes.
C32_NoSilentOverwrite ==
    /\ [](filter_call.called =>
            /\ (filter_call.error # NoError) <=>
                   (\/ ~isidentifier(filter_call.name)
                    \/ filter_call.name \in DOMAIN filter_call.before)
            /\ filter_call.error # NoError => filters = filter_call.before)
    /\ [][\A n \in DOMAIN filters :
              n \in DOMAIN filters' /\ filters'[n] = filters[n]]_vars

\* after a custom filter was registered, a call that names the default
\* filter currency with another function was rejected
C32_Witness ==
    /\ filter_call.called
    /\ filter_call.name = "currency"
    /\ filter_call.error = "ValueError: Filter already exists"
    /\ "mask" \in DOMAIN filters
    /\ filters["currency"] = "currency_format"

----------------------------------------------------------------------------
(* PushNotificationService.register_device (services/push_notification.py:75-124) *)

\* no register_device call is in progress
RegQuiet == \A t \in RegTasks : reg[t].pc = "idle"

\* C25: as long as no two register_device calls have overlapped, the user's
\* list holds at most token_limit entries.
C25_AtMostFiveSequential ==
    ~reg_ghost.overlap => Len(device_tokens) <= token_limit

\* calls made one after the other have filled the list, one of them has
\* trimmed it, and it holds token_limit entries again
C25_Witness ==
    /\ ~reg_ghost.overlap
    /\ reg_ghost.trimmed
    /\ RegQuiet
    /\ Len(device_tokens) = token_limit

\* C36: once register_device calls made one after the other have trimmed
\* the list, the entries it holds are the most recently registered ones: the
\* new token and the entries registered latest before it.
C36_KeepsMostRecent ==
    (~reg_ghost.overlap /\ reg_ghost.trimmed /\ RegQuiet) =>
        Range(reg_ghost.order) =
            (reg_ghost.pushed - Len(device_tokens) + 1) .. reg_ghost.pushed

\* C26: whenever all register_device calls have completed, overlapping or
\* not, the user's list holds at most token_limit entries.
C26_AtMostFiveConcurrent ==
    RegQuiet => Len(device_tokens) <= token_limit

----------------------------------------------------------------------------
(* PushNotificationService.send_notification (services/push_notification.py:126-318) *)

\* the send_notification call is over
PushOver == push.pc \in {"returned", "raised"}

\* C22: no token is passed to a provider after a provider has reported it
\* invalid, in the same send_notification or in a later one.
C22_InvalidTokenNeverResent == push.resent = {}

\* C23: a send_notification that tried some token returns True, with the
\* notification marked sent, exactly when a provider accepted at least one
\* token.
C23_SuccessIffAnyAccepted ==
    (push.pc = "returned" /\ (push.android_tokens # <<>> \/ push.ios_tokens # <<>>))
    => /\ (push.result = "True") <=> (push.accepted # {})
       /\ push.result = "True" => status = SENT

C27_SenderLeavesNotification ==
    PushOver =>
        [status |-> status, error_message |-> error_message,
         delivery_info |-> delivery_info] = push.before

\* every provider call of the send_notification call succeeded at once, for
\* every token of the user
AllSendsSucceeded ==
    /\ push.accepted # {}
    /\ push.accepted = Range(push.android_tokens) \cup Range(push.ios_tokens)
    /\ push.wait.after = 0

\* C34: at any time at most one send_notification of a user is between
\* reading the tokens and updating the notification; a call waits only
\* behind a call of the same user; a lock is held only while a call holds
\* it, however the call before ended; and a waiting call gets the lock.
C34_SerializedPerUser ==
    /\ [](/\ \A t, u \in SendTasks :
               (/\ t # u
                /\ senders[t].pc \in Holding
                /\ senders[u].pc \in Holding)
                   => senders[t].user_id # senders[u].user_id
          /\ \A t \in SendTasks :
               senders[t].pc = "waiting" =>
                   \/ \E u \in SendTasks \ {t} :
                        /\ senders[u].user_id = senders[t].user_id
                        /\ senders[u].pc \in Holding \cup {"waiting"}
                   \/ ENABLED LockResume(t)
          /\ \A k \in DOMAIN push_rate_limiters :
               push_rate_limiters[k].locked <=>
                   \E t \in SendTasks :
                       /\ senders[t].pc \in Holding
                       /\ rate_limit_key(senders[t].user_id) = k)
    /\ \A t \in SendTasks :
         (senders[t].pc = "waiting") ~> (senders[t].pc = "lrange")

\* a call ended with an exception, a call of the same user that had waited
\* holds the lock, and a call of the other user holds the other lock
C34_Witness ==
    \E t, u, v \in SendTasks :
        /\ senders[t].pc = "idle" /\ senders[t].raised
        /\ senders[u].user_id = senders[t].user_id
        /\ senders[u].waited /\ senders[u].pc \in Holding
        /\ senders[v].user_id # senders[u].user_id
        /\ senders[v].pc \in Holding

\* C35: no token is added to a blacklist on a failure that the provider
\* reported as transient.
C35_OnlyInvalidBlacklisted == push.sadd_transient = {}

\* C40: a send_notification for a notification that is already sent, in
\* which every provider send succeeds, returns True and leaves the status
\* sent.
C40_SuccessfulResendStaysSent ==
    (PushOver /\ push.before.status = SENT /\ AllSendsSucceeded) =>
        /\ push.result = "True"
        /\ status = SENT

====
